---- MODULE Spec2Model ----
(***************************************************************************)
(* Lead/lag correlation pipeline of the Regression-Project repository:     *)
(* main.py (the command-line front end) driving data_loader.load_data,     *)
(* analysis.find_optimal_lead_lag, analysis.calculate_rolling_correlations *)
(* and export.export_to_excel; and app.py (the Streamlit front end) with   *)
(* its exclusion period, its own aligner and its summary of the matrices.  *)
(*                                                                         *)
(* Timestamps are consecutive month starts, numbered 1..MaxT.  A series is *)
(* a function from timestamps to a value or NaN; NaN at a timestamp means  *)
(* the series has no row there (load_data drops rows without a value).     *)
(* Values are small integers, on which the floating-point sums of the      *)
(* correlation are exact; a correlation is kept as an exact fraction.      *)
(***************************************************************************)
EXTENDS Integers, Sequences, FiniteSets, TLC

\* ---------------------------------------------------------------- bounds
MaxT == 4
MaxFrameT == 3
MaxShiftArg == 3
MaxWindowArg == 3
MaxMonth == 8
MaxRamp == 5
MaxLag == 2
MaxCalMonths == 4
DaysPerMonth == 3
DaysPerWeek == 2

Ticks == 1..MaxT
\* The values a sheet's cell may hold.
Values == 1..2
\* --range and --window are type=int with no check on the command line.
RangeArgs == (0 - 1)..MaxShiftArg
WindowArgs == 1..MaxWindowArg

\* A missing value (np.nan) of a series; never a member of Values.
NaN == 0 - 1
\* Python's None, and a present value x, for variables that hold either.
None == <<>>
Some(x) == <<x>>
\* A frequency code: a count, a base and the base's anchor month ("2MS" is
\* count 2 of "MS", "QS-OCT" is count 1 of "QS" anchored on month 10).
\* pd.infer_freq's None ("irregular") is the code with base "None".
NoFreq == [n |-> 0, base |-> "None", anchor |-> 0]

SeriesSet == [Ticks -> Values \cup {NaN}]

\* ------------------------------------------------------------ arithmetic
Abs(x) == IF x < 0 THEN 0 - x ELSE x

Sign(x) == IF x < 0 THEN 0 - 1 ELSE IF x > 0 THEN 1 ELSE 0

RECURSIVE Gcd(_, _)
Gcd(a, b) == IF b = 0 THEN a ELSE Gcd(b, a % b)

RECURSIVE SumSeq(_)
SumSeq(q) == IF q = <<>> THEN 0 ELSE Head(q) + SumSeq(Tail(q))

\* The rows i of 1..n (ascending) for which keep[i] holds, as a sequence.
RECURSIVE FilterIdx(_, _, _)
FilterIdx(i, n, keep) ==
    IF i > n THEN <<>>
    ELSE (IF keep[i] THEN <<i>> ELSE <<>>) \o FilterIdx(i + 1, n, keep)

\* ----------------------------------------------------------- data_loader
\* load_data: each series keeps the rows that have a date and a value; a
\* series with no such row is None, and then both results are None.
Index(s) == {t \in DOMAIN s : s[t] # NaN}

LoadFails(lead, target) == Index(lead) = {} \/ Index(target) = {}

\* ------------------------------------------------- frequency (main.py 3-6)
\* pd.infer_freq on an index of month starts (timestamp 1 is a January):
\* fewer than 3 dates raise ValueError; an uneven spacing is None; an even
\* spacing of g months is tried as annual (g a multiple of 12, anchored on
\* the dates' month), then quarterly (g a multiple of 3, anchored by the
\* dates' month modulo 3), then monthly, the count put in front when it is
\* not 1 ("2MS", "2QS-OCT").
Gaps(idx) ==
    {b - a : <<a, b>> \in {p \in idx \X idx :
                  p[1] < p[2] /\ ~\E m \in idx : p[1] < m /\ m < p[2]}}

\* A detector that raises on 1 or 2 dates and takes an empty index as
\* irregular.
InferFreqRaisesNotOnEmpty(idx) == Cardinality(idx) \in {1, 2}

InferFreqRaises(idx) == Cardinality(idx) < 3

\* The calendar month (1..12) of a timestamp.
MonthOf(t) == ((t - 1) % 12) + 1

InferFreq(idx) ==
    IF Cardinality(Gaps(idx)) # 1 THEN NoFreq
    ELSE LET g == CHOOSE x \in Gaps(idx) : TRUE
             rep_stamp == CHOOSE t \in idx : TRUE
         IN  IF g % 12 = 0
             THEN [n |-> g \div 12, base |-> "AS",
                   anchor |-> MonthOf(rep_stamp)]
             ELSE IF g % 3 = 0
             THEN [n |-> g \div 3, base |-> "QS",
                   anchor |-> 10 + ((MonthOf(rep_stamp) + 2) % 3)]
             ELSE [n |-> g, base |-> "MS", anchor |-> 0]

\* freq.upper().startswith(letter): a count puts a digit first.
StartsWith(freq, letter) ==
    /\ freq # NoFreq
    /\ freq.n = 1
    /\ letter = (CASE freq.base \in {"MS", "M"} -> "M"
                   [] freq.base \in {"QS", "Q"} -> "Q"
                   [] freq.base \in {"AS", "A"} -> "A"
                   [] freq.base = "W" -> "W"
                   [] OTHER -> "D")

\* to_offset(freq).nanos: a week, month, quarter or year offset is not a
\* fixed span of time (not a Tick), so reading .nanos raises ValueError;
\* of the codes here only a count of days ("D") has it.
NanosRaises(freq) == freq.base \in {"MS", "QS", "AS", "M", "Q", "A", "W"}

\* Steps 4-6 of main: the two series that go on to the combine step.
\* resample(rule).last() on month-start stamps with rule 'MS' keeps each
\* month's own value (one stamp per month).
ResampleLastMS(s) ==
    [t \in DOMAIN s |->
        IF \E a \in Index(s) : \E b \in Index(s) : a <= t /\ t <= b
        THEN s[t] ELSE NaN]

\* The decision of steps 4-6: which series is resampled ('which') and onto
\* which code ('onto').  'said' is what the step prints beyond its narration
\* of a resampling: "Resampling not possible" (line 169), the "Error during
\* frequency comparison" of the except clause (line 244), the "Warning:
\* Frequencies ... resolve to the same offset" (line 237).
ResampleDecision(fl, ft) ==
    LET resampling_needed == fl # NoFreq /\ ft # NoFreq /\ fl # ft
        target_frequency == [n |-> 1, base |-> "MS", anchor |-> 0]
        keep(what) == [which |-> "neither", onto |-> NoFreq, said |-> what]
    IN  IF ~resampling_needed
        THEN keep(IF fl = NoFreq \/ ft = NoFreq
                  THEN {"resampling_not_possible"} ELSE {})
        ELSE IF StartsWith(fl, "W") /\ StartsWith(ft, "M")
             THEN [which |-> "lead", onto |-> target_frequency, said |-> {}]
        ELSE IF StartsWith(ft, "W") /\ StartsWith(fl, "M")
             THEN [which |-> "target", onto |-> target_frequency,
                   said |-> {}]
        ELSE IF NanosRaises(fl) \/ NanosRaises(ft)
             THEN keep({"comparison_failed"})   \* except ValueError
        ELSE IF fl.n > ft.n                     \* offset_lead.nanos > ..
             THEN [which |-> "target", onto |-> fl, said |-> {}]
        ELSE IF ft.n > fl.n
             THEN [which |-> "lead", onto |-> ft, said |-> {}]
        ELSE keep({"same_offset"})

\* The step on a sheet of month starts, where no code is weekly or daily:
\* the only resampling it can reach is the one onto 'MS'.
ResampleStep(lead, target, fl, ft) ==
    LET d == ResampleDecision(fl, ft)
    IN  [lead |-> IF d.which = "lead" THEN ResampleLastMS(lead) ELSE lead,
         target |-> IF d.which = "target" THEN ResampleLastMS(target)
                    ELSE target,
         resampled |-> d.which # "neither",
         said |-> d.said]

\* ------------------------------------------------ combine (main.py step 7)
\* The combine step dropping only the rows that miss a Leading value
\* (dropna(subset=['Leading'])).
CombineAndDropLeadingOnly(lead, target) ==
    LET keep == [t \in DOMAIN lead |-> lead[t] # NaN]
        rows == FilterIdx(1, Len(lead), keep)
    IN  [i \in 1..Len(rows) |->
            [ts |-> rows[i], Leading |-> lead[rows[i]],
             Target |-> target[rows[i]]]]

\* The combine step with its rows in descending time order.
CombineAndDropDescending(lead, target) ==
    LET keep == [t \in DOMAIN lead |-> lead[t] # NaN /\ target[t] # NaN]
        rows == FilterIdx(1, Len(lead), keep)
    IN  [i \in 1..Len(rows) |->
            [ts |-> rows[Len(rows) + 1 - i],
             Leading |-> lead[rows[Len(rows) + 1 - i]],
             Target |-> target[rows[Len(rows) + 1 - i]]]]

\* pd.DataFrame({'Leading': .., 'Target': ..}) joins the two indexes (their
\* sorted union); dropna() then removes every row with a NaN in a column.
CombineAndDrop(lead, target) ==
    LET keep == [t \in DOMAIN lead |-> lead[t] # NaN /\ target[t] # NaN]
        rows == FilterIdx(1, Len(lead), keep)
    IN  [i \in 1..Len(rows) |->
            [ts |-> rows[i], Leading |-> lead[rows[i]],
             Target |-> target[rows[i]]]]

Column(df, name) == [i \in 1..Len(df) |-> df[i][name]]

\* ---------------------------------------------------------- pandas pieces
\* A shift that rotates the column (np.roll): the values pushed off one end
\* come back at the other.
SeriesShiftWrap(col, s) ==
    [i \in 1..Len(col) |-> col[((i - s - 1) % Len(col)) + 1]]

\* Series.shift(s): row i receives the value of row i - s; rows that have no
\* such source row get NaN.
SeriesShift(col, s) ==
    [i \in 1..Len(col) |->
        IF i - s \in 1..Len(col) THEN col[i - s] ELSE NaN]

\* The pairing that ignores the span and takes every row of the columns.
PairedInWhole(x, y, lo, hi) ==
    FilterIdx(1, Len(x), [i \in 1..Len(x) |-> x[i] # NaN /\ y[i] # NaN])

\* The rows of lo..hi at which both columns hold a value: .dropna() on the
\* two-column frame, and the pairwise masking of rolling(...).corr(other).
PairedIn(x, y, lo, hi) ==
    FilterIdx(lo, hi, [i \in 1..Len(x) |-> x[i] # NaN /\ y[i] # NaN])

\* An undefined correlation (NaN), and an undefined R-squared.
NaNCorr == [def |-> FALSE, sgn |-> 0, num |-> 0, den |-> 1]
NaNR2 == [def |-> FALSE, num |-> 0, den |-> 1]

\* A correlation that reports 0 where a column has zero variance.
CorrZeroVarianceIsZero(x, y, at) ==
    LET n == Len(at)
        sx == SumSeq([k \in 1..n |-> x[at[k]]])
        sy == SumSeq([k \in 1..n |-> y[at[k]]])
        sxx == n * SumSeq([k \in 1..n |-> x[at[k]] * x[at[k]]]) - sx * sx
        syy == n * SumSeq([k \in 1..n |-> y[at[k]] * y[at[k]]]) - sy * sy
        sxy == n * SumSeq([k \in 1..n |-> x[at[k]] * y[at[k]]]) - sx * sy
        g == Gcd(sxy * sxy, sxx * syy)
    IN  IF n < 2 THEN NaNCorr
        ELSE IF sxx = 0 \/ syy = 0
             THEN [def |-> TRUE, sgn |-> 0, num |-> 0, den |-> 1]
        ELSE [def |-> TRUE, sgn |-> Sign(sxy), num |-> (sxy * sxy) \div g,
              den |-> (sxx * syy) \div g]

\* Pearson correlation of x and y over the rows 'at' (all holding values),
\* as the exact fraction sgn * sqrt(num / den); NaN when there are fewer
\* than 2 rows or a column has zero variance (0/0 in the division).
Corr(x, y, at) ==
    LET n == Len(at)
        sx == SumSeq([k \in 1..n |-> x[at[k]]])
        sy == SumSeq([k \in 1..n |-> y[at[k]]])
        sxx == n * SumSeq([k \in 1..n |-> x[at[k]] * x[at[k]]]) - sx * sx
        syy == n * SumSeq([k \in 1..n |-> y[at[k]] * y[at[k]]]) - sy * sy
        sxy == n * SumSeq([k \in 1..n |-> x[at[k]] * y[at[k]]]) - sx * sy
        g == Gcd(sxy * sxy, sxx * syy)
    IN  IF n < 2 \/ sxx = 0 \/ syy = 0 THEN NaNCorr
        ELSE [def |-> TRUE, sgn |-> Sign(sxy), num |-> (sxy * sxy) \div g,
              den |-> (sxx * syy) \div g]

\* (2 * correlation) ** 2
SquareOfDouble(r) ==
    IF ~r.def THEN NaNR2
    ELSE [def |-> TRUE, num |-> 4 * r.num, den |-> r.den]

\* correlation ** 2
Square(r) ==
    IF ~r.def THEN NaNR2 ELSE [def |-> TRUE, num |-> r.num, den |-> r.den]

\* a < b on defined R-squared values
R2Less(a, b) == a.num * b.den < b.num * a.den

\* ------------------------------------------ analysis.find_optimal_lead_lag
\* range(-max_shift, max_shift): the last shift left out.
ShiftsToTestHalfOpen(max_shift) ==
    [k \in 1..(2 * max_shift) |-> k - max_shift - 1]

\* range(-max_shift, max_shift + 1), in order; empty when max_shift < 0.
ShiftsToTest(max_shift) ==
    [k \in 1..(2 * max_shift + 1) |-> k - max_shift - 1]

\* The loop body with the length test off by one (len(temp_df) < 3).
StaticR2Min3(df, shift) ==
    LET shifted_leading == SeriesShift(Column(df, "Leading"), shift)
        target_series == Column(df, "Target")
        temp_df == PairedIn(shifted_leading, target_series, 1, Len(df))
    IN  IF Len(temp_df) < 3 THEN NaNR2
        ELSE Square(Corr(shifted_leading, target_series, temp_df))

\* One pass of the loop: shift, pair with Target, dropna, then the length
\* test and correlation ** 2.
StaticR2(df, shift) ==
    LET shifted_leading == SeriesShift(Column(df, "Leading"), shift)
        target_series == Column(df, "Target")
        temp_df == PairedIn(shifted_leading, target_series, 1, Len(df))
    IN  IF Len(temp_df) < 2 THEN NaNR2
        ELSE Square(Corr(shifted_leading, target_series, temp_df))

R2Results(df, max_shift) ==
    LET shifts == ShiftsToTest(max_shift)
    IN  [k \in 1..Len(shifts) |->
            [Shift |-> shifts[k], R_Squared |-> StaticR2(df, shifts[k])]]

\* Series.isnull().all()
AllNull(tab) == \A k \in 1..Len(tab) : ~tab[k].R_Squared.def

\* idxmax taking the last row that holds the maximum.
IdxMaxLast(tab) ==
    CHOOSE k \in 1..Len(tab) :
        /\ tab[k].R_Squared.def
        /\ \A j \in 1..Len(tab) :
              tab[j].R_Squared.def =>
                  /\ ~R2Less(tab[k].R_Squared, tab[j].R_Squared)
                  /\ j > k => R2Less(tab[j].R_Squared, tab[k].R_Squared)

\* Series.idxmax(): NaN skipped, the first row holding the maximum.
IdxMax(tab) ==
    CHOOSE k \in 1..Len(tab) :
        /\ tab[k].R_Squared.def
        /\ \A j \in 1..Len(tab) :
              tab[j].R_Squared.def =>
                  /\ ~R2Less(tab[k].R_Squared, tab[j].R_Squared)
                  /\ j < k => R2Less(tab[j].R_Squared, tab[k].R_Squared)

\* The call falling back to shift 0 when no shift has a defined R-squared.
FindOptimalLeadLagDefaultZero(df, max_shift) ==
    IF max_shift < 0
    THEN [raised |-> TRUE, best_shift |-> None, r2_results |-> None]
    ELSE LET tab == R2Results(df, max_shift)
         IN  IF AllNull(tab)
             THEN [raised |-> FALSE, best_shift |-> Some(0),
                   r2_results |-> Some(tab)]
             ELSE [raised |-> FALSE,
                   best_shift |-> Some(tab[IdxMax(tab)].Shift),
                   r2_results |-> Some(tab)]

\* The call breaking a tie of the maximum by the smallest absolute shift,
\* the negative one of s and -s.
FindOptimalLeadLagSmallestAbs(df, max_shift) ==
    IF max_shift < 0
    THEN [raised |-> TRUE, best_shift |-> None, r2_results |-> None]
    ELSE LET tab == R2Results(df, max_shift)
             best == {tab[k].Shift : k \in {k \in 1..Len(tab) :
                         /\ tab[k].R_Squared.def
                         /\ \A j \in 1..Len(tab) :
                               tab[j].R_Squared.def =>
                                   ~R2Less(tab[k].R_Squared,
                                           tab[j].R_Squared)}}
         IN  IF AllNull(tab)
             THEN [raised |-> FALSE, best_shift |-> None,
                   r2_results |-> Some(tab)]
             ELSE [raised |-> FALSE,
                   best_shift |-> Some(CHOOSE x \in best : \A u \in best :
                                     \/ Abs(x) < Abs(u)
                                     \/ (Abs(x) = Abs(u) /\ x <= u)),
                   r2_results |-> Some(tab)]

\* The call as a whole.  min(shifts_to_test) on an empty range (max_shift
\* < 0) raises ValueError before the loop.
FindOptimalLeadLag(df, max_shift) ==
    IF max_shift < 0
    THEN [raised |-> TRUE, best_shift |-> None, r2_results |-> None]
    ELSE LET tab == R2Results(df, max_shift)
         IN  IF AllNull(tab)
             THEN [raised |-> FALSE, best_shift |-> None,
                   r2_results |-> Some(tab)]
             ELSE [raised |-> FALSE,
                   best_shift |-> Some(tab[IdxMax(tab)].Shift),
                   r2_results |-> Some(tab)]

\* --------------------------------- analysis.calculate_rolling_correlations
\* int(window * 0.9): the float product truncated, which is floor(9w/10)
\* for every window (the product never rounds below the exact value).
MinPeriodsRequired(window) == (window * 9) \div 10

\* shifted_leading.rolling(window, min_periods).corr(target_series) at row i:
\* the trailing rows i-window+1..i that exist, masked pairwise; NaN below
\* min_periods observations.
RollingCell(df, shift, window, i) ==
    LET shifted_leading == SeriesShift(Column(df, "Leading"), shift)
        target_series == Column(df, "Target")
        lo == IF i - window + 1 < 1 THEN 1 ELSE i - window + 1
        obs == PairedIn(shifted_leading, target_series, lo, i)
    IN  IF Len(obs) < MinPeriodsRequired(window) THEN NaNCorr
        ELSE Corr(shifted_leading, target_series, obs)

\* The matrix with the rows that hold no defined cell dropped
\* (dropna(how='all')).
RollingMatrixDropEmptyRows(df, max_shift, window) ==
    LET shifts == ShiftsToTest(max_shift)
        kept == FilterIdx(1, Len(df),
                    [i \in 1..Len(df) |->
                        \E k \in 1..Len(shifts) :
                            RollingCell(df, shifts[k], window, i).def])
    IN  [cols |-> shifts,
         index |-> [j \in 1..Len(kept) |-> df[kept[j]].ts],
         cell |-> [k \in 1..Len(shifts) |->
                     [j \in 1..Len(kept) |->
                         RollingCell(df, shifts[k], window, kept[j])]]]

\* A matrix: its columns (shifts, in insertion order), its index (the frame's
\* timestamps) and its cells, one per column and row.
RollingMatrix(df, max_shift, window) ==
    LET shifts == ShiftsToTest(max_shift)
    IN  [cols |-> shifts,
         index |-> Column(df, "ts"),
         cell |-> [k \in 1..Len(shifts) |->
                     [i \in 1..Len(df) |->
                         RollingCell(df, shifts[k], window, i)]]]

CalculateRollingCorrelations(df, max_shift, window) ==
    IF window <= 1 THEN None
    ELSE IF Len(df) = 0 THEN None
    ELSE Some(RollingMatrix(df, max_shift, window))

\* ------------------------------ analysis.calculate_cumulative_correlations
\* Expanding window from the first row through row i, at least 2 paired
\* observations.
CumulativeCell(df, shift, i) ==
    LET shifted_leading == SeriesShift(Column(df, "Leading"), shift)
        target_series == Column(df, "Target")
        obs == PairedIn(shifted_leading, target_series, 1, i)
    IN  IF Len(obs) < 2 THEN NaNCorr
        ELSE Corr(shifted_leading, target_series, obs)

CalculateCumulativeCorrelations(df, max_shift) ==
    LET shifts == ShiftsToTest(max_shift)
    IN  Some([cols |-> shifts,
              index |-> Column(df, "ts"),
              cell |-> [k \in 1..Len(shifts) |->
                          [i \in 1..Len(df) |->
                              CumulativeCell(df, shifts[k], i)]]])

\* ----------------------------------------------- main.py step 5 (prepare)
\* df_shifted['Leading_Shifted'] = df_shifted['Leading'].shift(optimal_shift)
\* on a copy; then the two columns with dropna().
PrepareShifted(df, optimal_shift) ==
    LET sh == SeriesShift(Column(df, "Leading"), optimal_shift)
        at == PairedIn(sh, Column(df, "Target"), 1, Len(df))
    IN  [k \in 1..Len(at) |->
            [ts |-> df[at[k]].ts, Leading_Shifted |-> sh[at[k]],
             Target |-> df[at[k]].Target]]

\* The step without the copy and with the rows dropped in place: the rows
\* the shift left without a pair leave the frame itself.
PrepareStepInPlace(df, optimal_shift) ==
    LET final == PrepareShifted(df, optimal_shift)
    IN  [df_analysis |-> SelectSeq(df,
                            LAMBDA row : \E k \in 1..Len(final) :
                                             final[k].ts = row.ts),
         df_analysis_final |-> final]

\* main.py lines 295-297: df_shifted is df_analysis.copy(), the shifted
\* column is added to the copy, and the selection with dropna() builds a new
\* frame; df_analysis is left as it was.
PrepareStep(df, optimal_shift) ==
    [df_analysis |-> df,
     df_analysis_final |-> PrepareShifted(df, optimal_shift)]

\* ------------------------------------------------- export.export_to_excel
\* The last row of a matrix holds no defined cell.
LastRowAllNaN(m) ==
    \A k \in 1..Len(m.cols) : ~m.cell[k][Len(m.index)].def

\* The workbook is written unless a step inside the try block raises, which
\* the function catches and reports.  With a matrix that is None,
\* rolling_corr_df.empty (line 226) raises AttributeError.  With a matrix
\* whose last row is all NaN, idxmax() (lines 136, 147) yields no column
\* name, and .split on it raises.
ExportToExcel(df, best_shift, rolling, cumulative) ==
    IF rolling = None \/ cumulative = None THEN "failed"
    ELSE IF LastRowAllNaN(rolling[1]) \/ LastRowAllNaN(cumulative[1])
         THEN "failed"
    ELSE "written"

\* a < b on defined correlations, each the signed root of its fraction
CorrLess(a, b) ==
    IF a.sgn < 0 /\ b.sgn < 0 THEN R2Less(b, a)
    ELSE IF a.sgn < 0 THEN TRUE
    ELSE IF b.sgn < 0 THEN FALSE
    ELSE R2Less(a, b)

\* m.iloc[-1]: the last row of a matrix, one correlation per column.
FinalRow(m) == [k \in 1..Len(m.cols) |-> m.cell[k][Len(m.index)]]

\* export.py lines 134-152: iloc[-1].abs().idxmax() and the shift parsed
\* from the column's name: the first column whose final correlation is the
\* largest in absolute value, NaN skipped.
BestFinalShift(m) ==
    LET last == FinalRow(m)
    IN  m.cols[CHOOSE k \in 1..Len(last) :
                   /\ last[k].def
                   /\ \A j \in 1..Len(last) :
                         last[j].def =>
                             /\ ~R2Less(last[k], last[j])
                             /\ j < k => R2Less(last[j], last[k])]

\* app.py lines 202-218 and highlight_max_r_squared_rows, for one metric:
\* the summary column holds the final row's correlations as they are (not
\* squared), and idxmax() on it takes the first row with the largest value,
\* NaN skipped; no row is highlighted when every value is NaN.
HighlightMaxRSquaredRows(m) ==
    LET vals == FinalRow(m)
    IN  IF \A k \in 1..Len(vals) : ~vals[k].def THEN None
        ELSE Some(m.cols[CHOOSE k \in 1..Len(vals) :
                             /\ vals[k].def
                             /\ \A j \in 1..Len(vals) :
                                   vals[j].def =>
                                       /\ ~CorrLess(vals[k], vals[j])
                                       /\ j < k => CorrLess(vals[j], vals[k])])

\* ------------------------------------------------------------------ app.py
\* A period to exclude is a text; split(':') cuts it into fields.  A field
\* is the text of a month of the sheet ("YYYY-MM", written as the month's
\* number) or a text that is no date (written NoDateText).  Several periods
\* are a list of such texts; main.py takes the list (--exclude-period may be
\* repeated), the app's text box takes one text.
NoDateText == 0

\* pd.NaT
NaT == 0

\* pd.to_datetime(text, format='%Y-%m', errors='coerce'), and on NaT the
\* second try without a format: a month's text gives that month's first
\* day, a text that is no date gives NaT both times.
ToDatetime(text) ==
    LET first_try == IF text # NoDateText THEN text ELSE NaT
    IN  IF first_try # NaT THEN first_try
        ELSE (IF text # NoDateText THEN text ELSE NaT)

\* The fields exclude_period.split(':') gives for what stands in the text
\* box: nothing for an empty box, the fields of one period, and for
\* several periods written one after the other the fields of all of them
\* (more than two).
RECURSIVE SplitFields(_)
SplitFields(texts) ==
    IF texts = <<>> THEN <<>>
    ELSE Head(texts) \o SplitFields(Tail(texts))

\* series[~((series.index >= start_date) & (series.index <= end_date))]
\* with a filter whose upper bound is exclusive.
DropBetweenHalfOpen(series, start_date, end_date) ==
    [t \in DOMAIN series |->
        IF t >= start_date /\ t < end_date THEN NaN ELSE series[t]]

\* series[~((series.index >= start_date) & (series.index <= end_date))]
DropBetween(series, start_date, end_date) ==
    [t \in DOMAIN series |->
        IF t >= start_date /\ t <= end_date THEN NaN ELSE series[t]]

\* Step 7.b: the two series after the exclude period, and the warning
\* shown, if any.  Unpacking a split that has not exactly two fields raises
\* ValueError ("Invalid format"); a field that is no date gives "Could not
\* parse"; start and end are not compared.
AppExclude(lead, target, texts) ==
    LET fields == SplitFields(texts)
        keep(what) == [lead |-> lead, target |-> target, said |-> what]
    IN  IF texts = <<>> THEN keep({})
        ELSE IF Len(fields) # 2 THEN keep({"invalid_format"})
        ELSE LET start_date == ToDatetime(fields[1])
                 end_date == ToDatetime(fields[2])
             IN  IF start_date = NaT \/ end_date = NaT
                 THEN keep({"could_not_parse"})
                 ELSE [lead |-> DropBetween(lead, start_date, end_date),
                       target |-> DropBetween(target, start_date, end_date),
                       said |-> {}]

\* get_base_code: the code up to its anchor, trailing 'S' stripped ("MS"
\* gives "M", "QS-OCT" gives "Q", "2MS" gives "2M"), as count and letter.
GetBaseCode(freq) ==
    [n |-> freq.n,
     letter |-> CASE freq.base \in {"MS", "M"} -> "M"
                  [] freq.base \in {"QS", "Q"} -> "Q"
                  [] freq.base \in {"AS", "A"} -> "A"
                  [] freq.base = "W" -> "W"
                  [] freq.base = "D" -> "D"
                  [] OTHER -> "?"]

\* freq_order.get(base): the rank of 'D','B','W','M','Q','A', and None
\* (written 0) for every other string, a code with a count among them.
FreqOrder(code) ==
    IF code.n # 1 THEN 0
    ELSE CASE code.letter = "D" -> 1
           [] code.letter = "B" -> 2
           [] code.letter = "W" -> 3
           [] code.letter = "M" -> 4
           [] code.letter = "Q" -> 5
           [] code.letter = "A" -> 6
           [] OTHER -> 0

\* The months a period of the offset to_offset(freq) spans, for a code of
\* count 1.
PeriodMonths(freq) ==
    CASE freq.base \in {"QS", "Q"} -> 3
      [] freq.base \in {"AS", "A"} -> 12
      [] OTHER -> 1

\* Timestamp t starts a period of the offset: a quarter of "QS-OCT" starts
\* in January, April, July, October; a year of "AS-MAR" in March.
StartsPeriod(t, freq) ==
    (MonthOf(t) + 12 - freq.anchor) % PeriodMonths(freq) = 0

\* series.resample(offset).last(): one row per period of the offset,
\* stamped with the period's start and holding the latest row of the
\* series inside the period (NaN for a period without rows).  A period that
\* starts before the first timestamp of the sheet is left out: its stamp
\* is one no row of the other series carries.
ResampleLast(series, freq) ==
    [t \in DOMAIN series |->
        LET inside == {u \in Index(series) :
                          u >= t /\ u < t + PeriodMonths(freq)}
        IN  IF StartsPeriod(t, freq) /\ inside # {}
            THEN series[CHOOSE u \in inside : \A v \in inside : v <= u]
            ELSE NaN]

\* Step 8, lines 143-173: the decision by rank, which series is resampled
\* and onto which code.  Two codes of one rank fall through both tests and
\* nothing is shown.
AppResampleDecision(fl, ft) ==
    LET rank_lead == FreqOrder(GetBaseCode(fl))
        rank_target == FreqOrder(GetBaseCode(ft))
        keep(what) == [which |-> "neither", onto |-> NoFreq, said |-> what]
    IN  IF ~(fl # NoFreq /\ ft # NoFreq /\ fl # ft) THEN keep({})
        ELSE IF rank_lead = 0 \/ rank_target = 0
             THEN keep({"hierarchy_unknown"})
        ELSE IF rank_lead < rank_target
             THEN [which |-> "lead", onto |-> ft, said |-> {}]
        ELSE IF rank_target < rank_lead
             THEN [which |-> "target", onto |-> fl, said |-> {}]
        ELSE keep({})

\* The step on a sheet of month starts.
AppResample(lead, target, fl, ft) ==
    LET d == AppResampleDecision(fl, ft)
    IN  [lead |-> IF d.which = "lead" THEN ResampleLast(lead, d.onto)
                  ELSE lead,
         target |-> IF d.which = "target" THEN ResampleLast(target, d.onto)
                    ELSE target,
         resampled |-> d.which,
         said |-> d.said]

\* ------------------------------------------------------ a calendar of days
\* Sheets with rows inside the months: a day is numbered from 1 (the first
\* day of a January), a month has DaysPerMonth days, and the rows of a
\* weekly series lie DaysPerWeek days apart.
Days == 1..(MaxCalMonths * DaysPerMonth)

DayMonth(d) == ((d - 1) \div DaysPerMonth) + 1

IsMonthStart(d) == (d - 1) % DaysPerMonth = 0

IsMonthEnd(d) == d % DaysPerMonth = 0

WeekDay(d) == ((d - 1) % DaysPerWeek) + 1

\* The code of month ends that goes with a code of month starts: 'M' for
\* 'MS', 'Q-..' for 'QS-..', 'A-..' for 'AS-..'.
EndCode(freq) ==
    [n |-> freq.n,
     base |-> CASE freq.base = "MS" -> "M"
                [] freq.base = "QS" -> "Q"
                [] freq.base = "AS" -> "A"
                [] OTHER -> freq.base,
     anchor |-> freq.anchor]

\* pd.infer_freq on an index of days: the annual, quarterly and monthly
\* rules first, which need every date at its month's start ('MS', 'QS-..',
\* 'AS-..') or every date at its month's end ('M', 'Q-..', 'A-..') and an
\* even spacing in months; then, for an even spacing in days, weekly when
\* it is a whole number of weeks ('W-..' anchored on the weekday) and daily
\* otherwise; else None.
DayInferFreq(idx) ==
    LET months == {DayMonth(d) : d \in idx}
        monthly == InferFreq(months)
        rep_stamp == CHOOSE d \in idx : TRUE
    IN  IF /\ Cardinality(months) = Cardinality(idx)
           /\ monthly # NoFreq
           /\ \A d \in idx : IsMonthStart(d)
        THEN monthly
        ELSE IF /\ Cardinality(months) = Cardinality(idx)
                /\ monthly # NoFreq
                /\ \A d \in idx : IsMonthEnd(d)
        THEN EndCode(monthly)
        ELSE IF Cardinality(Gaps(idx)) # 1 THEN NoFreq
        ELSE LET days == CHOOSE x \in Gaps(idx) : TRUE
             IN  IF days % DaysPerWeek = 0
                 THEN [n |-> days \div DaysPerWeek, base |-> "W",
                       anchor |-> WeekDay(rep_stamp)]
                 ELSE [n |-> days, base |-> "D", anchor |-> 0]

\* series.resample(freq).last() on an index of days: one row per period of
\* the offset that holds a row of the series, with the latest of them.  A
\* period of month starts is stamped with its first day, a period of month
\* ends with its last day, a week with the day it ends on (its anchor), a
\* span of n days with its first day, counted from the first row.
DayResampleLast(series, freq) ==
    [d \in DOMAIN series |->
        LET m == DayMonth(d)
            first == CHOOSE u \in Index(series) :
                         \A v \in Index(series) : u <= v
            stamp ==
                CASE freq.base \in {"MS", "QS", "AS"} ->
                         IsMonthStart(d) /\ StartsPeriod(m, freq)
                  [] freq.base \in {"M", "Q", "A"} ->
                         IsMonthEnd(d) /\ StartsPeriod(m, freq)
                  [] freq.base = "W" -> WeekDay(d) = freq.anchor
                  [] OTHER -> d >= first /\ (d - first) % freq.n = 0
            inside ==
                CASE freq.base \in {"MS", "QS", "AS"} ->
                         {u \in Index(series) :
                             /\ DayMonth(u) >= m
                             /\ DayMonth(u) < m + PeriodMonths(freq)}
                  [] freq.base \in {"M", "Q", "A"} ->
                         {u \in Index(series) :
                             /\ DayMonth(u) > m - PeriodMonths(freq)
                             /\ DayMonth(u) <= m}
                  [] freq.base = "W" ->
                         {u \in Index(series) :
                             u > d - DaysPerWeek * freq.n /\ u <= d}
                  [] OTHER ->
                         {u \in Index(series) : u >= d /\ u < d + freq.n}
        IN  IF Index(series) # {} /\ stamp /\ inside # {}
            THEN series[CHOOSE u \in inside : \A v \in inside : v <= u]
            ELSE NaN]

\* main.py steps 4-6 on the calendar of days.
ResampleStepOnDays(lead, target, fl, ft) ==
    LET d == ResampleDecision(fl, ft)
    IN  [lead |-> IF d.which = "lead" THEN DayResampleLast(lead, d.onto)
                  ELSE lead,
         target |-> IF d.which = "target"
                    THEN DayResampleLast(target, d.onto) ELSE target,
         resampled |-> d.which # "neither",
         said |-> d.said]

\* app.py lines 143-173 on the calendar of days.
AppResampleOnDays(lead, target, fl, ft) ==
    LET d == AppResampleDecision(fl, ft)
    IN  [lead |-> IF d.which = "lead" THEN DayResampleLast(lead, d.onto)
                  ELSE lead,
         target |-> IF d.which = "target"
                    THEN DayResampleLast(target, d.onto) ELSE target,
         resampled |-> d.which,
         said |-> d.said]

\* ------------------------------------------------- the aligner as a whole
\* Frequency detection, resampling and the combine step of a front end on
\* two series: None when the detection raises, else the frame (which may
\* be empty).
AlignSeries(fe, lead, target) ==
    IF InferFreqRaises(Index(lead)) \/ InferFreqRaises(Index(target))
    THEN None
    ELSE LET fl == InferFreq(Index(lead))
             ft == InferFreq(Index(target))
             r == IF fe = "app" THEN AppResample(lead, target, fl, ft)
                  ELSE ResampleStep(lead, target, fl, ft)
         IN  Some(CombineAndDrop(r.lead, r.target))

\* ------------------------------------------------------------------ state
VARIABLES
    front_end,           \* the program that runs: "main" (main.py), "app"
    pc,                  \* the step of main() that runs next
    status,              \* how the run stands: running, or how it ended
    exclude_period,      \* args.exclude_period; the app's exclude_period
    diagnostics,         \* the warnings shown so far (an error that ends
                         \* the run is its status)
    args_range,          \* args.range
    args_window,         \* args.window
    lead_series_raw,
    target_series_raw,
    freq_lead,
    freq_target,
    lead_series_final,
    target_series_final,
    df_analysis,         \* the aligned frame
    optimal_shift,
    r2_results_df,
    df_analysis_final,
    rolling_corr_df,
    cumulative_corr_df,
    export_result

vars == <<front_end, pc, status, exclude_period, diagnostics, args_range, args_window, lead_series_raw,
          target_series_raw, freq_lead, freq_target, lead_series_final,
          target_series_final, df_analysis, optimal_shift, r2_results_df,
          df_analysis_final, rolling_corr_df, cumulative_corr_df,
          export_result>>

EmptySeries == [t \in Ticks |-> NaN]

\* The state as main() starts its work: the arguments parsed, the sheet's two
\* series as the file holds them, nothing computed yet.
Init ==
    /\ pc = "load"
    /\ status = "running"
    /\ front_end = "main"
    /\ exclude_period = <<>>
    /\ diagnostics = {}
    /\ args_range \in RangeArgs
    /\ args_window \in WindowArgs
    /\ lead_series_raw \in SeriesSet
    /\ target_series_raw \in SeriesSet
    /\ freq_lead = NoFreq
    /\ freq_target = NoFreq
    /\ lead_series_final = EmptySeries
    /\ target_series_final = EmptySeries
    /\ df_analysis = <<>>
    /\ optimal_shift = None
    /\ r2_results_df = None
    /\ df_analysis_final = <<>>
    /\ rolling_corr_df = None
    /\ cumulative_corr_df = None
    /\ export_result = "none"

Halt(how) == pc' = "done" /\ status' = how

\* Step 2: load_data; (None, None) ends the run.
LoadData ==
    /\ pc = "load"
    /\ IF LoadFails(lead_series_raw, target_series_raw)
       THEN Halt("load_failed")
       ELSE pc' = "detect" /\ status' = status
    /\ UNCHANGED <<front_end, exclude_period, diagnostics,
                   args_range, args_window, lead_series_raw,
                   target_series_raw, freq_lead, freq_target,
                   lead_series_final, target_series_final, df_analysis,
                   optimal_shift, r2_results_df, df_analysis_final,
                   rolling_corr_df, cumulative_corr_df, export_result>>

\* Step 3: pd.infer_freq on each index; its ValueError is not caught.
DetectFrequencies ==
    /\ pc = "detect"
    /\ IF InferFreqRaises(Index(lead_series_raw))
          \/ InferFreqRaises(Index(target_series_raw))
       THEN /\ Halt("crashed")
            /\ UNCHANGED <<freq_lead, freq_target>>
       ELSE /\ pc' = "resample"
            /\ status' = status
            /\ freq_lead' = InferFreq(Index(lead_series_raw))
            /\ freq_target' = InferFreq(Index(target_series_raw))
    /\ UNCHANGED <<front_end, exclude_period, diagnostics,
                   args_range, args_window, lead_series_raw,
                   target_series_raw, lead_series_final,
                   target_series_final, df_analysis, optimal_shift,
                   r2_results_df, df_analysis_final, rolling_corr_df,
                   cumulative_corr_df, export_result>>

\* Steps 4-6: decide on resampling and do it.
Resample ==
    /\ pc = "resample"
    /\ LET r == ResampleStep(lead_series_raw, target_series_raw,
                             freq_lead, freq_target)
       IN  /\ lead_series_final' = r.lead
           /\ target_series_final' = r.target
           /\ diagnostics' = diagnostics \cup r.said
    /\ pc' = "combine"
    /\ UNCHANGED <<front_end, exclude_period, status,
                   args_range, args_window, lead_series_raw,
                   target_series_raw, freq_lead, freq_target, df_analysis,
                   optimal_shift, r2_results_df, df_analysis_final,
                   rolling_corr_df, cumulative_corr_df, export_result>>

\* Step 7: combine, dropna; an empty frame ends the run.
CombineAndAlign ==
    /\ pc = "combine"
    /\ df_analysis' = CombineAndDrop(lead_series_final, target_series_final)
    /\ IF Len(df_analysis') = 0
       THEN Halt("no_overlap")
       ELSE pc' = "static" /\ status' = status
    /\ UNCHANGED <<front_end, exclude_period, diagnostics,
                   args_range, args_window, lead_series_raw,
                   target_series_raw, freq_lead, freq_target,
                   lead_series_final, target_series_final, optimal_shift,
                   r2_results_df, df_analysis_final, rolling_corr_df,
                   cumulative_corr_df, export_result>>

\* find_optimal_lead_lag and the test of its best shift.
StaticScore ==
    /\ pc = "static"
    /\ LET r == FindOptimalLeadLag(df_analysis, args_range)
       IN  /\ optimal_shift' = r.best_shift
           /\ r2_results_df' = r.r2_results
           /\ IF r.raised THEN Halt("crashed")
              ELSE IF r.best_shift = None THEN Halt("no_valid_shift")
              ELSE pc' = "prepare" /\ status' = status
    /\ UNCHANGED <<front_end, exclude_period, diagnostics,
                   args_range, args_window, lead_series_raw,
                   target_series_raw, freq_lead, freq_target,
                   lead_series_final, target_series_final, df_analysis,
                   df_analysis_final, rolling_corr_df, cumulative_corr_df,
                   export_result>>

\* Step 5: the optimally shifted copy.
PrepareOptimal ==
    /\ pc = "prepare"
    /\ LET r == PrepareStep(df_analysis, optimal_shift[1])
       IN  /\ df_analysis' = r.df_analysis
           /\ df_analysis_final' = r.df_analysis_final
    /\ pc' = "rolling"
    /\ UNCHANGED <<front_end, exclude_period, diagnostics,
                   status, args_range, args_window, lead_series_raw,
                   target_series_raw, freq_lead, freq_target,
                   lead_series_final, target_series_final,
                   optimal_shift, r2_results_df, rolling_corr_df,
                   cumulative_corr_df, export_result>>

\* Step 6: the rolling matrix; None only draws a warning.
RollingStep ==
    /\ pc = "rolling"
    /\ rolling_corr_df' =
           CalculateRollingCorrelations(df_analysis, args_range, args_window)
    /\ pc' = "cumulative"
    /\ UNCHANGED <<front_end, exclude_period, diagnostics,
                   status, args_range, args_window, lead_series_raw,
                   target_series_raw, freq_lead, freq_target,
                   lead_series_final, target_series_final, df_analysis,
                   optimal_shift, r2_results_df, df_analysis_final,
                   cumulative_corr_df, export_result>>

\* The cumulative matrix; None only draws a warning.
CumulativeStep ==
    /\ pc = "cumulative"
    /\ cumulative_corr_df' =
           CalculateCumulativeCorrelations(df_analysis, args_range)
    /\ pc' = "export"
    /\ UNCHANGED <<front_end, exclude_period, diagnostics,
                   status, args_range, args_window, lead_series_raw,
                   target_series_raw, freq_lead, freq_target,
                   lead_series_final, target_series_final, df_analysis,
                   optimal_shift, r2_results_df, df_analysis_final,
                   rolling_corr_df, export_result>>

\* Step 7 (export) and "Analysis complete."
ExportStep ==
    /\ pc = "export"
    /\ export_result' = ExportToExcel(df_analysis, optimal_shift,
                                      rolling_corr_df, cumulative_corr_df)
    /\ Halt("complete")
    /\ UNCHANGED <<front_end, exclude_period, diagnostics,
                   args_range, args_window, lead_series_raw,
                   target_series_raw, freq_lead, freq_target,
                   lead_series_final, target_series_final, df_analysis,
                   optimal_shift, r2_results_df, df_analysis_final,
                   rolling_corr_df, cumulative_corr_df>>

Next ==
    \/ LoadData
    \/ DetectFrequencies
    \/ Resample
    \/ CombineAndAlign
    \/ StaticScore
    \/ PrepareOptimal
    \/ RollingStep
    \/ CumulativeStep
    \/ ExportStep

Spec == Init /\ [][Next]_vars

\* ------------------------------------------------- the scorers on any frame
\* Every aligned frame over the timestamps 1..MaxFrameT: a row, or none, at
\* each timestamp.  The run stands where main() has built the frame from two
\* irregular series (no resampling); rows of the sheet that fall outside the
\* overlap of the two series are left out.
FrameCells == [1..MaxFrameT -> (Values \X Values) \cup {<<NaN, NaN>>}]

FrameColumn(f, c) == [t \in Ticks |-> IF t <= MaxFrameT THEN f[t][c] ELSE NaN]

InitScorer ==
    /\ pc = "static"
    /\ status = "running"
    /\ front_end = "main"
    /\ exclude_period = <<>>
    /\ diagnostics = {}
    /\ args_range \in RangeArgs
    /\ args_window \in WindowArgs
    /\ \E f \in FrameCells :
          /\ lead_series_raw = FrameColumn(f, 1)
          /\ target_series_raw = FrameColumn(f, 2)
    /\ Index(lead_series_raw) # {}
    /\ freq_lead = NoFreq
    /\ freq_target = NoFreq
    /\ lead_series_final = lead_series_raw
    /\ target_series_final = target_series_raw
    /\ df_analysis = CombineAndDrop(lead_series_final, target_series_final)
    /\ optimal_shift = None
    /\ r2_results_df = None
    /\ df_analysis_final = <<>>
    /\ rolling_corr_df = None
    /\ cumulative_corr_df = None
    /\ export_result = "none"

NextScorer ==
    \/ StaticScore
    \/ PrepareOptimal
    \/ RollingStep
    \/ CumulativeStep
    \/ ExportStep

SpecScorer == InitScorer /\ [][NextScorer]_vars

\* ------------------------------------------------- the aligner on any sheet
\* main() from the sheet's two series to the aligned frame.  These steps read
\* neither args.range nor args.window, which stand at one valid pair.
InitAligner ==
    /\ pc = "load"
    /\ status = "running"
    /\ front_end = "main"
    /\ exclude_period = <<>>
    /\ diagnostics = {}
    /\ args_range = 1
    /\ args_window = 2
    /\ lead_series_raw \in SeriesSet
    /\ target_series_raw \in SeriesSet
    /\ freq_lead = NoFreq
    /\ freq_target = NoFreq
    /\ lead_series_final = EmptySeries
    /\ target_series_final = EmptySeries
    /\ df_analysis = <<>>
    /\ optimal_shift = None
    /\ r2_results_df = None
    /\ df_analysis_final = <<>>
    /\ rolling_corr_df = None
    /\ cumulative_corr_df = None
    /\ export_result = "none"

NextAligner ==
    \/ LoadData
    \/ DetectFrequencies
    \/ Resample
    \/ CombineAndAlign

SpecAligner == InitAligner /\ [][NextAligner]_vars

\* --------------------------------------------------------- app.py's run
\* The Streamlit script after "Run Analysis" is pressed.  Its lead_series
\* and target_series, reassigned by the exclusion and the resampling, are
\* lead_series_final and target_series_final here; analysis_df, rolling_df
\* and cum_df are df_analysis, rolling_corr_df and cumulative_corr_df;
\* max_shift and window (number_input with min_value 1 and 2) are
\* args_range and args_window.  The app never calls find_optimal_lead_lag
\* nor the exporter.

\* Lines 92-103 and 225-226: load_data; (None, None) shows an error.
AppLoadData ==
    /\ pc = "app_load"
    /\ IF LoadFails(lead_series_raw, target_series_raw)
       THEN /\ Halt("load_failed")
            /\ UNCHANGED <<lead_series_final, target_series_final>>
       ELSE /\ pc' = "app_exclude"
            /\ status' = status
            /\ lead_series_final' = lead_series_raw
            /\ target_series_final' = target_series_raw
    /\ UNCHANGED <<front_end, exclude_period, diagnostics, args_range,
                   args_window,
                   lead_series_raw, target_series_raw, freq_lead,
                   freq_target, df_analysis, optimal_shift, r2_results_df,
                   df_analysis_final, rolling_corr_df, cumulative_corr_df,
                   export_result>>

\* Step 7.b, lines 106-134.
AppExcludePeriod ==
    /\ pc = "app_exclude"
    /\ LET r == AppExclude(lead_series_final, target_series_final,
                           exclude_period)
       IN  /\ lead_series_final' = r.lead
           /\ target_series_final' = r.target
           /\ diagnostics' = diagnostics \cup r.said
    /\ pc' = "app_detect"
    /\ UNCHANGED <<front_end, exclude_period, status, args_range,
                   args_window, lead_series_raw, target_series_raw,
                   freq_lead, freq_target, df_analysis, optimal_shift,
                   r2_results_df, df_analysis_final, rolling_corr_df,
                   cumulative_corr_df, export_result>>

\* Lines 139-141: pd.infer_freq on each index; its ValueError is caught by
\* the except clause of step 8 (lines 221-223), which shows it.
AppDetectFrequencies ==
    /\ pc = "app_detect"
    /\ IF InferFreqRaises(Index(lead_series_final))
          \/ InferFreqRaises(Index(target_series_final))
       THEN /\ Halt("align_error")
            /\ UNCHANGED <<freq_lead, freq_target>>
       ELSE /\ pc' = "app_resample"
            /\ status' = status
            /\ freq_lead' = InferFreq(Index(lead_series_final))
            /\ freq_target' = InferFreq(Index(target_series_final))
    /\ UNCHANGED <<front_end, exclude_period, diagnostics, args_range,
                   args_window,
                   lead_series_raw, target_series_raw, lead_series_final,
                   target_series_final, df_analysis, optimal_shift,
                   r2_results_df, df_analysis_final, rolling_corr_df,
                   cumulative_corr_df, export_result>>

\* Lines 143-173; the resampled series takes the other's code.
AppResampleStep ==
    /\ pc = "app_resample"
    /\ LET r == AppResample(lead_series_final, target_series_final,
                            freq_lead, freq_target)
       IN  /\ lead_series_final' = r.lead
           /\ target_series_final' = r.target
           /\ diagnostics' = diagnostics \cup r.said
           /\ freq_lead' = IF r.resampled = "lead"
                            THEN freq_target ELSE freq_lead
           /\ freq_target' = IF r.resampled = "target"
                              THEN freq_lead ELSE freq_target
    /\ pc' = "app_combine"
    /\ UNCHANGED <<front_end, exclude_period, status, args_range,
                   args_window, lead_series_raw, target_series_raw,
                   df_analysis, optimal_shift, r2_results_df,
                   df_analysis_final, rolling_corr_df, cumulative_corr_df,
                   export_result>>

\* Lines 176-193: combine, dropna; an empty frame shows an error.
AppCombineAndAlign ==
    /\ pc = "app_combine"
    /\ df_analysis' = CombineAndDrop(lead_series_final, target_series_final)
    /\ IF Len(df_analysis') = 0
       THEN Halt("no_overlap")
       ELSE pc' = "app_analyse" /\ status' = status
    /\ UNCHANGED <<front_end, exclude_period, diagnostics, args_range,
                   args_window,
                   lead_series_raw, target_series_raw, freq_lead,
                   freq_target, lead_series_final, target_series_final,
                   optimal_shift, r2_results_df, df_analysis_final,
                   rolling_corr_df, cumulative_corr_df, export_result>>

\* Lines 199-220: the two matrices and the summary of their last rows; an
\* exception (rolling_df is None for a window of 1) shows an error.
AppAnalyse ==
    /\ pc = "app_analyse"
    /\ rolling_corr_df' =
           CalculateRollingCorrelations(df_analysis, args_range, args_window)
    /\ cumulative_corr_df' =
           CalculateCumulativeCorrelations(df_analysis, args_range)
    /\ IF rolling_corr_df' = None \/ cumulative_corr_df' = None
       THEN Halt("analysis_error")
       ELSE Halt("complete")
    /\ UNCHANGED <<front_end, exclude_period, diagnostics, args_range,
                   args_window,
                   lead_series_raw, target_series_raw, freq_lead,
                   freq_target, lead_series_final, target_series_final,
                   df_analysis, optimal_shift, r2_results_df,
                   df_analysis_final, export_result>>

\* ------------------------------------ both front ends, periods to exclude
\* A sheet column with rows at the months idx of 1..months, each row holding
\* its month's number: every row of a series is told from every other.
SheetColumn(idx, months) ==
    [t \in 1..months |-> IF t \in idx THEN t ELSE NaN]

\* A period's text: one field (no ':' in it) or two, each a month of the
\* sheet or no date.
PeriodTexts ==
    {<<a>> : a \in {NoDateText} \cup Ticks}
        \cup {<<a, b>> : <<a, b>> \in ({NoDateText} \cup Ticks)
                                         \X ({NoDateText} \cup Ticks)}

\* No period, one period of any text, or two periods of one month each.
ExcludeInputs ==
    {<<>>} \cup {<<p>> : p \in PeriodTexts}
        \cup {<< <<p[1], p[1]>>, <<p[2], p[2]>> >> :
                  p \in {q \in Ticks \X Ticks : q[1] < q[2]}}

\* A run of either front end on any two columns of MaxT months, given any of
\* the periods; max_shift and window stand at one valid pair.
InitExclude ==
    /\ front_end \in {"main", "app"}
    /\ pc = (IF front_end = "main" THEN "load" ELSE "app_load")
    /\ status = "running"
    /\ exclude_period \in ExcludeInputs
    /\ diagnostics = {}
    /\ args_range = 1
    /\ args_window = 2
    /\ lead_series_raw \in {SheetColumn(idx, MaxT) : idx \in SUBSET Ticks}
    /\ target_series_raw \in {SheetColumn(idx, MaxT) : idx \in SUBSET Ticks}
    /\ freq_lead = NoFreq
    /\ freq_target = NoFreq
    /\ lead_series_final = EmptySeries
    /\ target_series_final = EmptySeries
    /\ df_analysis = <<>>
    /\ optimal_shift = None
    /\ r2_results_df = None
    /\ df_analysis_final = <<>>
    /\ rolling_corr_df = None
    /\ cumulative_corr_df = None
    /\ export_result = "none"

NextExclude ==
    \/ LoadData
    \/ DetectFrequencies
    \/ Resample
    \/ CombineAndAlign
    \/ AppLoadData
    \/ AppExcludePeriod
    \/ AppDetectFrequencies
    \/ AppResampleStep
    \/ AppCombineAndAlign
    \/ AppAnalyse

SpecExclude == InitExclude /\ [][NextExclude]_vars

\* ------------------------------------- both aligners, several frequencies
\* The aligner of either front end on any two columns of MaxMonth months:
\* long enough for monthly, two-monthly and quarterly series, and for
\* quarterly series of different anchors.  No period is excluded.
Months == 1..MaxMonth

InitFreq ==
    /\ front_end \in {"main", "app"}
    /\ pc = (IF front_end = "main" THEN "load" ELSE "app_load")
    /\ status = "running"
    /\ exclude_period = <<>>
    /\ diagnostics = {}
    /\ args_range = 1
    /\ args_window = 2
    /\ lead_series_raw \in
           {SheetColumn(idx, MaxMonth) : idx \in SUBSET Months}
    /\ target_series_raw \in
           {SheetColumn(idx, MaxMonth) : idx \in SUBSET Months}
    /\ freq_lead = NoFreq
    /\ freq_target = NoFreq
    /\ lead_series_final = SheetColumn({}, MaxMonth)
    /\ target_series_final = SheetColumn({}, MaxMonth)
    /\ df_analysis = <<>>
    /\ optimal_shift = None
    /\ r2_results_df = None
    /\ df_analysis_final = <<>>
    /\ rolling_corr_df = None
    /\ cumulative_corr_df = None
    /\ export_result = "none"

NextFreq ==
    \/ LoadData
    \/ DetectFrequencies
    \/ Resample
    \/ CombineAndAlign
    \/ AppLoadData
    \/ AppExcludePeriod
    \/ AppDetectFrequencies
    \/ AppResampleStep
    \/ AppCombineAndAlign

SpecFreq == InitFreq /\ [][NextFreq]_vars

\* --------------------------------- both aligners on the calendar of days
\* The steps that read the dates, on sheets of the calendar of days; the
\* load, the exclude period and the combine step are those above.

\* main.py step 3.
DayDetectFrequencies ==
    /\ pc = "detect"
    /\ IF InferFreqRaises(Index(lead_series_raw))
          \/ InferFreqRaises(Index(target_series_raw))
       THEN /\ Halt("crashed")
            /\ UNCHANGED <<freq_lead, freq_target>>
       ELSE /\ pc' = "resample"
            /\ status' = status
            /\ freq_lead' = DayInferFreq(Index(lead_series_raw))
            /\ freq_target' = DayInferFreq(Index(target_series_raw))
    /\ UNCHANGED <<front_end, exclude_period, diagnostics,
                   args_range, args_window, lead_series_raw,
                   target_series_raw, lead_series_final,
                   target_series_final, df_analysis, optimal_shift,
                   r2_results_df, df_analysis_final, rolling_corr_df,
                   cumulative_corr_df, export_result>>

\* main.py steps 4-6.
DayResample ==
    /\ pc = "resample"
    /\ LET r == ResampleStepOnDays(lead_series_raw, target_series_raw,
                                  freq_lead, freq_target)
       IN  /\ lead_series_final' = r.lead
           /\ target_series_final' = r.target
           /\ diagnostics' = diagnostics \cup r.said
    /\ pc' = "combine"
    /\ UNCHANGED <<front_end, exclude_period, status,
                   args_range, args_window, lead_series_raw,
                   target_series_raw, freq_lead, freq_target, df_analysis,
                   optimal_shift, r2_results_df, df_analysis_final,
                   rolling_corr_df, cumulative_corr_df, export_result>>

\* app.py lines 139-141.
AppDayDetectFrequencies ==
    /\ pc = "app_detect"
    /\ IF InferFreqRaises(Index(lead_series_final))
          \/ InferFreqRaises(Index(target_series_final))
       THEN /\ Halt("align_error")
            /\ UNCHANGED <<freq_lead, freq_target>>
       ELSE /\ pc' = "app_resample"
            /\ status' = status
            /\ freq_lead' = DayInferFreq(Index(lead_series_final))
            /\ freq_target' = DayInferFreq(Index(target_series_final))
    /\ UNCHANGED <<front_end, exclude_period, diagnostics,
                   args_range, args_window, lead_series_raw,
                   target_series_raw, lead_series_final,
                   target_series_final, df_analysis, optimal_shift,
                   r2_results_df, df_analysis_final, rolling_corr_df,
                   cumulative_corr_df, export_result>>

\* app.py lines 143-173.
AppDayResampleStep ==
    /\ pc = "app_resample"
    /\ LET r == AppResampleOnDays(lead_series_final, target_series_final,
                                 freq_lead, freq_target)
       IN  /\ lead_series_final' = r.lead
           /\ target_series_final' = r.target
           /\ diagnostics' = diagnostics \cup r.said
           /\ freq_lead' = IF r.resampled = "lead"
                            THEN freq_target ELSE freq_lead
           /\ freq_target' = IF r.resampled = "target"
                              THEN freq_lead ELSE freq_target
    /\ pc' = "app_combine"
    /\ UNCHANGED <<front_end, exclude_period, status, args_range,
                   args_window, lead_series_raw, target_series_raw,
                   df_analysis, optimal_shift, r2_results_df,
                   df_analysis_final, rolling_corr_df, cumulative_corr_df,
                   export_result>>

\* The rows of a regular sheet: 'count' days from 'first' on, 'step' apart.
RunOfDays(first, step, count) == {first + step * j : j \in 0..(count - 1)}

\* The sheets of the calendar: daily, weekly, two-weekly, and monthly ones
\* stamped at the month's start or at the month's end.
CalendarSheets ==
    {run \in {RunOfDays(first, step, count) :
                 first \in Days,
                 step \in {1, DaysPerWeek, 2 * DaysPerWeek},
                 count \in 1..Cardinality(Days)} : run \subseteq Days}
        \cup {run \in {RunOfDays(first, DaysPerMonth, count) :
                         first \in {d \in Days :
                                       IsMonthStart(d) \/ IsMonthEnd(d)},
                         count \in 1..MaxCalMonths} : run \subseteq Days}

\* A run of either front end on two such sheets; no period is excluded,
\* max_shift and window stand at one valid pair.
InitCalendar ==
    /\ front_end \in {"main", "app"}
    /\ pc = (IF front_end = "main" THEN "load" ELSE "app_load")
    /\ status = "running"
    /\ exclude_period = <<>>
    /\ diagnostics = {}
    /\ args_range = 1
    /\ args_window = 2
    /\ lead_series_raw \in
           {SheetColumn(idx, Cardinality(Days)) : idx \in CalendarSheets}
    /\ target_series_raw \in
           {SheetColumn(idx, Cardinality(Days)) : idx \in CalendarSheets}
    /\ freq_lead = NoFreq
    /\ freq_target = NoFreq
    /\ lead_series_final = SheetColumn({}, Cardinality(Days))
    /\ target_series_final = SheetColumn({}, Cardinality(Days))
    /\ df_analysis = <<>>
    /\ optimal_shift = None
    /\ r2_results_df = None
    /\ df_analysis_final = <<>>
    /\ rolling_corr_df = None
    /\ cumulative_corr_df = None
    /\ export_result = "none"

NextCalendar ==
    \/ LoadData
    \/ DayDetectFrequencies
    \/ DayResample
    \/ CombineAndAlign
    \/ AppLoadData
    \/ AppExcludePeriod
    \/ AppDayDetectFrequencies
    \/ AppDayResampleStep
    \/ AppCombineAndAlign

SpecCalendar == InitCalendar /\ [][NextCalendar]_vars

\* ------------------------------------------- a ramp and its delayed copy
\* A sheet whose Leading column holds 1, 2, .., n at n consecutive months
\* from the first on, and whose Target column holds the same values 'lag'
\* months later.
RampColumn(n, lag, months) ==
    [t \in 1..months |-> IF t > lag /\ t <= lag + n THEN t - lag ELSE NaN]

\* main() on such a sheet, for the ramps of 3..MaxRamp values, the delays
\* 0..MaxLag and every valid --range and --window.
InitRamp ==
    /\ pc = "load"
    /\ status = "running"
    /\ front_end = "main"
    /\ exclude_period = <<>>
    /\ diagnostics = {}
    /\ args_range \in 1..MaxShiftArg
    /\ args_window \in 2..MaxWindowArg
    /\ \E n \in 3..MaxRamp : \E lag \in 0..MaxLag :
          /\ lead_series_raw = RampColumn(n, 0, MaxRamp + MaxLag)
          /\ target_series_raw = RampColumn(n, lag, MaxRamp + MaxLag)
    /\ freq_lead = NoFreq
    /\ freq_target = NoFreq
    /\ lead_series_final = SheetColumn({}, MaxRamp + MaxLag)
    /\ target_series_final = SheetColumn({}, MaxRamp + MaxLag)
    /\ df_analysis = <<>>
    /\ optimal_shift = None
    /\ r2_results_df = None
    /\ df_analysis_final = <<>>
    /\ rolling_corr_df = None
    /\ cumulative_corr_df = None
    /\ export_result = "none"

SpecRamp == InitRamp /\ [][Next]_vars

\* ====================================================== properties checked
StaticDone == r2_results_df # None

ShiftRange(max_shift) == (0 - max_shift)..max_shift

\* The shifts of a static table whose R-squared is defined and maximal.
MaxShifts(tab) ==
    {tab[k].Shift : k \in {k \in 1..Len(tab) :
        /\ tab[k].R_Squared.def
        /\ \A j \in 1..Len(tab) :
              tab[j].R_Squared.def =>
                  ~R2Less(tab[k].R_Squared, tab[j].R_Squared)}}

\* Among a set of shifts: smallest absolute value, then the negative one.
SmallestAbsThenNegative(S) ==
    CHOOSE s \in S : \A u \in S :
        Abs(s) < Abs(u) \/ (Abs(s) = Abs(u) /\ s <= u)

\* C1 (as stated): the best shift has the maximum defined R-squared among
\* the shifts -maxShift..maxShift, and among several shifts sharing that
\* maximum it is the one of smallest absolute value, the negative one of
\* s and -s.
C1_TieBreakSmallestAbs ==
    (StaticDone /\ optimal_shift # None) =>
        /\ {r2_results_df[1][k].Shift : k \in 1..Len(r2_results_df[1])}
               = ShiftRange(args_range)
        /\ optimal_shift[1] = SmallestAbsThenNegative(MaxShifts(r2_results_df[1]))

\* C1 (amended): the best shift has the maximum defined R-squared among the
\* shifts -maxShift..maxShift, and among several shifts sharing that
\* maximum it is the smallest (most negative) one.
C1_BestShiftFirstMax ==
    (StaticDone /\ optimal_shift # None) =>
        /\ {r2_results_df[1][k].Shift : k \in 1..Len(r2_results_df[1])}
               = ShiftRange(args_range)
        /\ optimal_shift[1] \in MaxShifts(r2_results_df[1])
        /\ \A u \in MaxShifts(r2_results_df[1]) : optimal_shift[1] <= u

\* A run in which the maximum is shared, and 0 is one of the sharers but
\* not the first.
C1_Witness ==
    /\ StaticDone
    /\ optimal_shift # None
    /\ Cardinality(MaxShifts(r2_results_df[1])) > 1
    /\ 0 \in MaxShifts(r2_results_df[1])
    /\ optimal_shift[1] < 0

\* The pairing of shift s read off the frame's rows: Leading of row j with
\* Target of row j + s, for the rows j that have such a partner.
LagPairs(df, s) ==
    LET n == Len(df)
        first == IF s >= 0 THEN 1 ELSE 1 - s
        cnt == IF n - Abs(s) > 0 THEN n - Abs(s) ELSE 0
    IN  [x |-> [k \in 1..cnt |-> df[first + k - 1].Leading],
         y |-> [k \in 1..cnt |-> df[first + k - 1 + s].Target],
         all |-> [k \in 1..cnt |-> k]]

\* C2: for every shift s in range the table holds r squared of the pairs
\* (Leading shifted by s, Target) over the rows where both are present if
\* at least 2 such rows remain, and undefined (not 0) if fewer remain.
C2_StaticR2PerShift ==
    StaticDone =>
        \A k \in 1..Len(r2_results_df[1]) :
            LET p == LagPairs(df_analysis, r2_results_df[1][k].Shift)
            IN  r2_results_df[1][k].R_Squared =
                    (IF Len(p.all) >= 2
                     THEN Square(Corr(p.x, p.y, p.all)) ELSE NaNR2)

\* A table with a shift left with exactly 2 paired rows and a defined
\* R-squared, and a shift left with 1 paired row.
C2_Witness ==
    /\ StaticDone
    /\ \E k \in 1..Len(r2_results_df[1]) :
          /\ Len(LagPairs(df_analysis, r2_results_df[1][k].Shift).all) = 2
          /\ r2_results_df[1][k].R_Squared.def
    /\ \E k \in 1..Len(r2_results_df[1]) :
          /\ Len(LagPairs(df_analysis, r2_results_df[1][k].Shift).all) = 1
          /\ ~r2_results_df[1][k].R_Squared.def

LeadingConstant(df) ==
    \A i \in 1..Len(df) : df[i].Leading = df[1].Leading

\* C4: with a constant Leading column, whatever the Target, every shift in
\* range has an undefined R-squared (not 0, and the call does not raise)
\* and the scorer ends with no valid shift.
C4_ConstantLeadingUndefined ==
    (pc # "static" /\ args_range >= 0 /\ LeadingConstant(df_analysis)) =>
        /\ StaticDone
        /\ Len(r2_results_df[1]) = 2 * args_range + 1
        /\ AllNull(r2_results_df[1])
        /\ optimal_shift = None
        /\ status = "no_valid_shift"

\* The scorer has run on a frame of 3 rows with a constant Leading and a
\* varying Target, over several shifts.
C4_Witness ==
    /\ pc # "static"
    /\ args_range >= 1
    /\ Len(df_analysis) = 3
    /\ LeadingConstant(df_analysis)
    /\ df_analysis[1].Target # df_analysis[2].Target
    /\ status = "no_valid_shift"

\* The Leading value the frame holds at timestamp u, NaN if it has no row
\* there.
LeadingAtTs(df, u) ==
    IF \E j \in 1..Len(df) : df[j].ts = u
    THEN df[CHOOSE j \in 1..Len(df) : df[j].ts = u].Leading
    ELSE NaN

\* C5 (as stated): for every shift s in range, the shifted view holds at
\* timestamp u the Leading value of timestamp u - s periods.
C5_ShiftByPeriods ==
    StaticDone =>
        \A s \in ShiftRange(args_range) : \A i \in 1..Len(df_analysis) :
            SeriesShift(Column(df_analysis, "Leading"), s)[i]
                = LeadingAtTs(df_analysis, df_analysis[i].ts - s)

Min(a, b) == IF a < b THEN a ELSE b

MissingRows(col) == {i \in 1..Len(col) : col[i] = NaN}

\* C6 (as stated): shifting Leading by s makes exactly |s| boundary rows
\* missing (the first |s| for s > 0, the last |s| for s < 0) and the
\* paired row count drops by exactly |s|.
C6_ExactlyAbsShiftRowsMissing ==
    StaticDone =>
        \A s \in ShiftRange(args_range) :
            LET n == Len(df_analysis)
                sh == SeriesShift(Column(df_analysis, "Leading"), s)
            IN  /\ Cardinality(MissingRows(sh)) = Abs(s)
                /\ Len(PairedIn(sh, Column(df_analysis, "Target"), 1, n))
                       = n - Abs(s)

\* C6 (amended): shifting Leading by s makes exactly min(|s|, rows) boundary
\* rows missing (the first ones for s > 0, the last ones for s < 0), the
\* paired row count drops by exactly that number, and every other row holds
\* the value of the row s places before it: nothing wraps, nothing repeats.
C6_BoundaryRowsMissing ==
    StaticDone =>
        \A s \in ShiftRange(args_range) :
            LET n == Len(df_analysis)
                m == Min(Abs(s), n)
                sh == SeriesShift(Column(df_analysis, "Leading"), s)
            IN  /\ MissingRows(sh) =
                       (IF s > 0 THEN 1..m ELSE (n - m + 1)..n)
                /\ Len(PairedIn(sh, Column(df_analysis, "Target"), 1, n))
                       = n - m
                /\ \A i \in (1..n) \ MissingRows(sh) :
                       /\ i - s \in 1..n
                       /\ sh[i] = df_analysis[i - s].Leading

\* The scorer has run over a range reaching past the frame's length, on a
\* frame of at least 2 rows.
C6_Witness ==
    /\ StaticDone
    /\ Len(df_analysis) >= 2
    /\ args_range > Len(df_analysis)

\* ceil(0.9 * window)
CeilNinetyPercent(window) == (9 * window + 9) \div 10

\* The rows of the trailing window ending at row i at which Leading shifted
\* by s and Target are both present.
WindowPairs(df, s, window, i) ==
    {j \in 1..Len(df) : j > i - window /\ j <= i /\ j - s \in 1..Len(df)}

\* C7 (as stated): a rolling cell (s, t) is defined only if the trailing
\* window ending at t holds at least ceil(0.9 * window) paired observations.
C7_RollingNeedsCeilNinetyPercent ==
    rolling_corr_df # None =>
        LET m == rolling_corr_df[1]
        IN  \A k \in 1..Len(m.cols) : \A i \in 1..Len(m.index) :
                m.cell[k][i].def =>
                    Cardinality(WindowPairs(df_analysis, m.cols[k],
                                            args_window, i))
                        >= CeilNinetyPercent(args_window)

NoResults ==
    /\ r2_results_df = None
    /\ rolling_corr_df = None
    /\ cumulative_corr_df = None
    /\ export_result = "none"

\* C8 (as stated): a run with window <= 1 produces no static, rolling or
\* cumulative result.
C8_WindowAtMostOneRejected == args_window <= 1 => NoResults

\* C9 (as stated): a run with maxShift <= 0 evaluates no shift and returns no
\* result table.
C9_NonPositiveRangeRejected == args_range <= 0 => NoResults

FrameBuilt == pc \in {"static", "prepare", "rolling", "cumulative", "export"}
                 \/ status \in {"no_valid_shift", "complete"}

\* C10: the frame the scorers receive has one row for exactly the
\* timestamps at which both (possibly resampled) series hold a value, in
\* time order, each row carrying the two series' values at its timestamp; no
\* row misses a Leading or a Target value.
C10_FrameIsBothPresent ==
    FrameBuilt =>
        /\ {df_analysis[i].ts : i \in 1..Len(df_analysis)} =
               {t \in Ticks : /\ lead_series_final[t] # NaN
                              /\ target_series_final[t] # NaN}
        /\ \A i \in 1..Len(df_analysis) :
               /\ df_analysis[i].Leading # NaN
               /\ df_analysis[i].Target # NaN
               /\ df_analysis[i].Leading = lead_series_final[df_analysis[i].ts]
               /\ df_analysis[i].Target = target_series_final[df_analysis[i].ts]
               /\ i > 1 => df_analysis[i - 1].ts < df_analysis[i].ts

\* A frame handed to the scorer from which the combine step dropped a
\* timestamp only Leading has and a timestamp only Target has.
C10_Witness ==
    /\ pc = "static"
    /\ \E t \in Ticks : lead_series_final[t] # NaN /\ target_series_final[t] = NaN
    /\ \E t \in Ticks : lead_series_final[t] = NaN /\ target_series_final[t] # NaN

\* ---------------------------------------------------------- the aligners
\* The two series as the aligner receives them: load_data's for main.py,
\* which excludes nothing; those left by the exclude period for the app.
SeriesToAlign ==
    IF front_end = "app"
    THEN AppExclude(lead_series_raw, target_series_raw, exclude_period)
    ELSE [lead |-> lead_series_raw, target |-> target_series_raw,
          said |-> {}]

\* A series has a detected frequency: the detector returns a code.
Detected(series) ==
    ~InferFreqRaises(Index(series)) /\ InferFreq(Index(series)) # NoFreq

\* The place of a code in daily < business-daily < weekly < monthly <
\* quarterly < annual, 0 for a code that is none of them.
CalendarRank(freq) ==
    IF freq.n # 1 THEN 0
    ELSE CASE freq.base = "MS" -> 4
           [] freq.base = "QS" -> 5
           [] freq.base = "AS" -> 6
           [] OTHER -> 0

DetectionDone ==
    /\ pc \notin {"load", "detect", "app_load", "app_exclude", "app_detect"}
    /\ status # "load_failed"

ResampleDone ==
    /\ DetectionDone
    /\ pc \notin {"resample", "app_resample"}
    /\ status \notin {"crashed", "align_error"}

\* C11 (as stated): when both frequencies are detected, differ and stand at
\* different places of the order, the series of the finer one goes on as
\* its resampling onto the coarser one's periods by the last row of each
\* period, and the series of the coarser one goes on unchanged.
C11_FinerResampledOntoCoarser ==
    ResampleDone =>
        LET lead == SeriesToAlign.lead
            target == SeriesToAlign.target
            fl == InferFreq(Index(lead))
            ft == InferFreq(Index(target))
        IN  (/\ Detected(lead) /\ Detected(target)
             /\ CalendarRank(fl) # 0 /\ CalendarRank(ft) # 0
             /\ CalendarRank(fl) # CalendarRank(ft)) =>
                IF CalendarRank(fl) < CalendarRank(ft)
                THEN /\ lead_series_final = ResampleLast(lead, ft)
                     /\ target_series_final = target
                ELSE /\ lead_series_final = lead
                     /\ target_series_final = ResampleLast(target, fl)

\* C12 (as stated): when the frequency of either series is irregular or
\* cannot be detected, the run goes on to the combine step, and both series
\* enter it as the exclusion left them.
C12_UndetectedAlignedAsIs ==
    (DetectionDone /\ (~Detected(SeriesToAlign.lead)
                         \/ ~Detected(SeriesToAlign.target))) =>
        /\ status \notin {"crashed", "align_error"}
        /\ ResampleDone =>
              /\ lead_series_final = SeriesToAlign.lead
              /\ target_series_final = SeriesToAlign.target

ResampleWarnings == {"hierarchy_unknown", "comparison_failed", "same_offset"}

\* C13 (as stated): when both frequencies are detected and differ but are
\* not ordered (a code outside the order, or two codes at one place of it),
\* both series go on unresampled and a diagnostic is emitted.
C13_UnorderedSkippedWithDiagnostic ==
    ResampleDone =>
        LET lead == SeriesToAlign.lead
            target == SeriesToAlign.target
            fl == InferFreq(Index(lead))
            ft == InferFreq(Index(target))
        IN  (/\ Detected(lead) /\ Detected(target)
             /\ fl # ft
             /\ \/ CalendarRank(fl) = 0
                \/ CalendarRank(ft) = 0
                \/ CalendarRank(fl) = CalendarRank(ft)) =>
                /\ lead_series_final = lead
                /\ target_series_final = target
                /\ diagnostics \cap ResampleWarnings # {}

\* ------------------------------------------------------ the exclude period
\* A period's text that reads as a closed interval: two fields, both dates,
\* the first not after the second.
IsInterval(text) ==
    /\ Len(text) = 2
    /\ ToDatetime(text[1]) # NaT
    /\ ToDatetime(text[2]) # NaT
    /\ ToDatetime(text[1]) <= ToDatetime(text[2])

\* Timestamp t lies in one of the intervals.
InUnion(t, texts) ==
    \E k \in 1..Len(texts) :
        ToDatetime(texts[k][1]) <= t /\ t <= ToDatetime(texts[k][2])

\* The series with exactly the rows of the intervals removed.
WithoutUnion(series, texts) ==
    [t \in DOMAIN series |-> IF InUnion(t, texts) THEN NaN ELSE series[t]]

FrameHandedOver == pc \in {"static", "app_analyse"}

\* C15 (as stated): in a run given one or more intervals to exclude, the
\* frame the scorers receive has no row whose timestamp lies in one of the
\* intervals.
C15_ExcludedRowsNeverInFrame ==
    (/\ FrameHandedOver
     /\ exclude_period # <<>>
     /\ \A k \in 1..Len(exclude_period) : IsInterval(exclude_period[k])) =>
        \A i \in 1..Len(df_analysis) :
            ~InUnion(df_analysis[i].ts, exclude_period)

\* A period's text that is malformed: a field that is no date, or a start
\* after the end.
IsMalformed(text) ==
    /\ Len(text) = 2
    /\ \/ ToDatetime(text[1]) = NaT
       \/ ToDatetime(text[2]) = NaT
       \/ ToDatetime(text[1]) > ToDatetime(text[2])

\* C16 (as stated): a malformed period is rejected with a diagnostic and
\* skipped; it removes no row of either series, and the run goes on to the
\* alignment.
C16_MalformedPeriodRejected ==
    (/\ front_end = "app"
     /\ pc \notin {"app_load", "app_exclude"}
     /\ status # "load_failed"
     /\ Len(exclude_period) = 1
     /\ IsMalformed(exclude_period[1])) =>
        /\ diagnostics \cap {"could_not_parse", "invalid_format"} # {}
        /\ pc = "app_detect" =>
               /\ lead_series_final = lead_series_raw
               /\ target_series_final = target_series_raw

C18_TooFewRowsNoScorer ==
    Len(df_analysis) < 2 =>
        /\ r2_results_df = None
        /\ rolling_corr_df = None
        /\ cumulative_corr_df = None

C20_RollingMatrixShape ==
    (/\ pc \in {"cumulative", "export"} \/ status = "complete"
     /\ args_window > 1
     /\ args_range >= 1) =>
        /\ rolling_corr_df # None
        /\ Len(rolling_corr_df[1].cols) = 2 * args_range + 1
        /\ \A k \in 1..Len(rolling_corr_df[1].cols) :
               rolling_corr_df[1].cols[k] = k - args_range - 1
        /\ rolling_corr_df[1].index = Column(df_analysis, "ts")
        /\ \A k \in 1..Len(rolling_corr_df[1].cols) :
               DOMAIN rolling_corr_df[1].cell[k] = 1..Len(df_analysis)

\* A matrix of several columns on a frame of 3 rows, its first row without
\* a defined cell and its last row with one.
C20_Witness ==
    /\ rolling_corr_df # None
    /\ Len(rolling_corr_df[1].cols) >= 3
    /\ Len(df_analysis) = 3
    /\ \A k \in 1..Len(rolling_corr_df[1].cols) :
           ~rolling_corr_df[1].cell[k][1].def
    /\ \E k \in 1..Len(rolling_corr_df[1].cols) :
           rolling_corr_df[1].cell[k][3].def

\* ------------------------------------------------- the cumulative matrix
\* The pairs (Leading of row j - s, Target of row j) over the rows j of the
\* frame from the first through row i that have such a partner.
SpanPairs(df, s, i) ==
    LET rows == FilterIdx(1, i, [j \in 1..Len(df) |-> j - s \in 1..Len(df)])
    IN  [x |-> [k \in 1..Len(rows) |-> df[rows[k] - s].Leading],
         y |-> [k \in 1..Len(rows) |-> df[rows[k]].Target],
         all |-> [k \in 1..Len(rows) |-> k]]

C22_R2WithinUnitInterval ==
    StaticDone =>
        \A k \in 1..Len(r2_results_df[1]) :
            r2_results_df[1][k].R_Squared.def =>
                /\ r2_results_df[1][k].R_Squared.den > 0
                /\ 0 <= r2_results_df[1][k].R_Squared.num
                /\ r2_results_df[1][k].R_Squared.num
                       <= r2_results_df[1][k].R_Squared.den

\* A table that holds an R-squared of 1 and one strictly between 0 and 1.
C22_Witness ==
    /\ StaticDone
    /\ \E k \in 1..Len(r2_results_df[1]) :
          /\ r2_results_df[1][k].R_Squared.def
          /\ r2_results_df[1][k].R_Squared.num
                 = r2_results_df[1][k].R_Squared.den
    /\ \E k \in 1..Len(r2_results_df[1]) :
          /\ r2_results_df[1][k].R_Squared.def
          /\ 0 < r2_results_df[1][k].R_Squared.num
          /\ r2_results_df[1][k].R_Squared.num
                 < r2_results_df[1][k].R_Squared.den

\* ------------------------------------------------- aligned input, again
\* The column of a frame as a series over the timestamps of series 'like':
\* the frame's value at the timestamps it has a row for.
FrameSeries(df, name, like) ==
    [t \in DOMAIN like |->
        IF \E i \in 1..Len(df) : df[i].ts = t
        THEN df[CHOOSE i \in 1..Len(df) : df[i].ts = t][name]
        ELSE NaN]

\* The two series have detected frequencies and the same timestamps (hence
\* the same frequency and a value in both at each of them).
AlreadyAligned(lead, target) ==
    /\ Detected(lead)
    /\ Detected(target)
    /\ Index(lead) = Index(target)

\* C23: when the two series the aligner receives have the same detected
\* frequency and the same timestamps, the frame has exactly the input's
\* rows (its timestamps in time order, each row with the two values of its
\* timestamp), and aligning the frame's two columns again gives the frame.
C23_AlignedInputUnchanged ==
    (/\ pc \notin {"load", "detect", "resample", "combine", "app_load",
                   "app_exclude", "app_detect", "app_resample",
                   "app_combine"}
     /\ AlreadyAligned(SeriesToAlign.lead, SeriesToAlign.target)) =>
        LET lead == SeriesToAlign.lead
            target == SeriesToAlign.target
        IN  /\ Len(df_analysis) = Cardinality(Index(lead))
            /\ \A i \in 1..Len(df_analysis) :
                   /\ df_analysis[i].ts \in Index(lead)
                   /\ df_analysis[i].Leading = lead[df_analysis[i].ts]
                   /\ df_analysis[i].Target = target[df_analysis[i].ts]
                   /\ i > 1 => df_analysis[i - 1].ts < df_analysis[i].ts
            /\ AlignSeries(front_end,
                           FrameSeries(df_analysis, "Leading", lead),
                           FrameSeries(df_analysis, "Target", target))
                   = Some(df_analysis)

\* A frame built from two series of the same rows, 3 or more, that do not
\* start at the sheet's first month.
C23_Witness ==
    /\ pc \in {"static", "app_analyse"}
    /\ AlreadyAligned(SeriesToAlign.lead, SeriesToAlign.target)
    /\ Len(df_analysis) >= 3
    /\ df_analysis[1].ts > 1

\* ------------------------------------------------------------ scenario A
\* The sheet of scenario A: Leading = 1..5 at five consecutive months,
\* Target the same values one month later.
ScenarioA ==
    /\ lead_series_raw = RampColumn(5, 0, MaxRamp + MaxLag)
    /\ target_series_raw = RampColumn(5, 1, MaxRamp + MaxLag)

\* The R-squared the table holds for shift s.
R2At(tab, s) == tab[CHOOSE k \in 1..Len(tab) : tab[k].Shift = s].R_Squared

IsOne(r2) == r2.def /\ r2.num = r2.den

\* C24 (as stated): on scenario A the aligner followed by the static scorer
\* returns best shift +1, with R-squared 1 at that shift.
C24_ScenarioABestShiftPlusOne ==
    (ScenarioA /\ StaticDone) =>
        /\ optimal_shift = Some(1)
        /\ IsOne(R2At(r2_results_df[1], 1))

\* C24 (amended): on a ramp and its copy delayed by 'lag' months (scenario
\* A: 5 values, 1 month) that leave a frame of 3 or more rows, R-squared is
\* 1 at the shift equal to the delay (when it is in range and leaves 2 or
\* more pairs), but also at
\* every other shift that leaves 2 or more pairs, shifts 0 and -1 among
\* them; the best shift returned is the first of these in ascending order,
\* a negative shift, and never the delay.
C24_RampBestShiftFirstOfTies ==
    (StaticDone /\ Len(df_analysis) >= 3) =>
        LET tab == r2_results_df[1]
            lag == df_analysis[1].ts - 1
        IN  /\ \A k \in 1..Len(tab) :
                   IF Len(LagPairs(df_analysis, tab[k].Shift).all) >= 2
                   THEN IsOne(tab[k].R_Squared)
                   ELSE ~tab[k].R_Squared.def
            /\ (lag <= args_range /\ Len(df_analysis) - lag >= 2) =>
                   IsOne(R2At(tab, lag))
            /\ IsOne(R2At(tab, 0))
            /\ IsOne(R2At(tab, 0 - 1))
            /\ optimal_shift # None
            /\ optimal_shift[1] < 0
            /\ optimal_shift[1] # lag
            /\ optimal_shift[1] \in MaxShifts(tab)
            /\ \A u \in MaxShifts(tab) : optimal_shift[1] <= u

\* Scenario A scored over a range that holds shift +1, with R-squared 1 at
\* shift +1 and at the negative shift returned.
C24_Witness ==
    /\ ScenarioA
    /\ StaticDone
    /\ Len(df_analysis) = 4
    /\ IsOne(R2At(r2_results_df[1], 1))
    /\ optimal_shift # None
    /\ optimal_shift[1] < 0

\* ------------------------------------------------------------ scenario C
\* Leading is weekly and Target monthly (stamped at the month's start or
\* at its end), each with the 3 or more rows the detector needs.
WeeklyOntoMonthly ==
    /\ ~InferFreqRaises(Index(lead_series_raw))
    /\ ~InferFreqRaises(Index(target_series_raw))
    /\ DayInferFreq(Index(lead_series_raw)).base = "W"
    /\ DayInferFreq(Index(lead_series_raw)).n = 1
    /\ DayInferFreq(Index(target_series_raw)).base \in {"MS", "M"}
    /\ DayInferFreq(Index(target_series_raw)).n = 1

\* The latest row of the series in the month of day d, NaN if it has none.
LastOfMonth(series, d) ==
    LET inside == {u \in Index(series) : DayMonth(u) = DayMonth(d)}
    IN  IF inside = {} THEN NaN
        ELSE series[CHOOSE u \in inside : \A v \in inside : v <= u]

\* C25 (as stated): with a weekly Leading and a monthly Target, the frame
\* has exactly one row for each month in which both series have a row,
\* stamped with Target's timestamp of that month, holding Leading's last
\* row of the month and Target's row; Target goes on unchanged.
C25_WeeklyOntoMonthlyGrid ==
    (/\ WeeklyOntoMonthly
     /\ pc \in {"static", "app_analyse", "done"}) =>
        /\ target_series_final = target_series_raw
        /\ {df_analysis[i].ts : i \in 1..Len(df_analysis)} =
               {d \in Index(target_series_raw) :
                   LastOfMonth(lead_series_raw, d) # NaN}
        /\ \A i \in 1..Len(df_analysis) :
               /\ df_analysis[i].Leading =
                      LastOfMonth(lead_series_raw, df_analysis[i].ts)
               /\ df_analysis[i].Target =
                      target_series_raw[df_analysis[i].ts]

\* The run has ended on a frame with rows, with a shift range of at least 1
\* and a window of at least 2.
EndedOnValidRun ==
    /\ pc = "done"
    /\ Len(df_analysis) >= 1
    /\ args_range >= 1
    /\ args_window >= 2

\* C26: the static scorer and the two trackers run independently of one
\* another: a run that reached a frame with rows, with valid parameters, ends
\* with the static table and with both matrices computed, whether or not the
\* static scorer found a best shift.
C26_TrackersIndependentOfStatic ==
    EndedOnValidRun =>
        /\ r2_results_df # None
        /\ rolling_corr_df # None
        /\ cumulative_corr_df # None

\* C27: the aligned frame is immutable once constructed: at every step of
\* the static scorer, the preparation of the shifted data, the two trackers
\* and the export, the frame holds the timestamps and the Leading and Target
\* values the aligner built it with.
C27_AlignedFrameImmutable ==
    (pc \in {"static", "prepare", "rolling", "cumulative", "export", "done"})
        => df_analysis = CombineAndDrop(lead_series_final,
                                        target_series_final)

\* A run through all four calls whose shifted copy lost rows to the shift.
C27_Witness ==
    /\ pc = "done"
    /\ status = "complete"
    /\ export_result = "written"
    /\ Len(df_analysis) >= 2
    /\ Len(df_analysis_final) < Len(df_analysis)

\* C28: export_to_excel tolerates a missing matrix: a run that reaches the
\* export with a matrix that is None (the tracker failed, main() only
\* warned) still ends with the workbook written.
C28_ExportToleratesMissingMatrix ==
    (pc = "done" /\ status = "complete"
       /\ (rolling_corr_df = None \/ cumulative_corr_df = None))
        => export_result = "written"

\* Both matrices are computed and the final row of each holds a defined
\* correlation.
FinalRowsDefined ==
    /\ rolling_corr_df # None
    /\ cumulative_corr_df # None
    /\ ~LastRowAllNaN(rolling_corr_df[1])
    /\ ~LastRowAllNaN(cumulative_corr_df[1])

\* C29: on the same two matrices the shift the app's summary highlights for
\* a metric is the shift the exporter selects for it, also when the
\* strongest final correlation is negative.
C29_HighlightAgreesWithExporter ==
    FinalRowsDefined =>
        /\ HighlightMaxRSquaredRows(rolling_corr_df[1])
               = Some(BestFinalShift(rolling_corr_df[1]))
        /\ HighlightMaxRSquaredRows(cumulative_corr_df[1])
               = Some(BestFinalShift(cumulative_corr_df[1]))

\* The front end that is not running.
OtherFrontEnd == IF front_end = "main" THEN "app" ELSE "main"

\* C30: the two front ends implement the same aligner: with no period
\* excluded, the frame the running front end has built from the sheet's two
\* series is the frame the other front end builds from them.
C30_FrontEndsAlignAlike ==
    (exclude_period = <<>> /\ pc \in {"static", "app_analyse"})
        => AlignSeries(OtherFrontEnd, lead_series_raw, target_series_raw)
               = Some(df_analysis)


====
